---- MODULE Spec2Model ----
(***************************************************************************)
(* Model of the ELG6131 backend relay (src/nebius.py, src/main.py): six    *)
(* HTTP route handlers over an external content store (Cloudinary) and two *)
(* vision backends (Nebius chat completion, Gemini generate_content).      *)
(*                                                                         *)
(* src/main.py registers the same six handlers with the same bodies and     *)
(* imports the helpers; the definitions below follow src/nebius.py.        *)
(*                                                                         *)
(* A text is a sequence of one-character strings.  The JSON decoder below  *)
(* follows json.loads (json/decoder.py, json/scanner.py and their C        *)
(* speed-ups); an integer is kept as its decimal text, a number with a      *)
(* fraction or an exponent and NaN/Infinity as their literal.              *)
(***************************************************************************)
EXTENDS Integers, Sequences, FiniteSets, TLC

\* ------------------------------------------------------------------ bounds
\* Longest run of one whitespace character in a generated backend text.
MaxPad == 1
\* Most resources the content store holds.
MaxStore == 2
\* Most upload requests that wait for the bytes of their file at once.
MaxReading == 1
\* The most frames left on the call stack when a handler calls json.loads.
MaxLeft == 9

\* ------------------------------------------------------------ text helpers
\* A character a TLA+ string cannot hold is written as a name between angle
\* brackets: the grave accent (U+0060) is "<grave>", a control character has its
\* ASCII name ("<nul>", "<bs>", "<vt>", "<us>", ...), U+0085 is "<nel>", U+00A0 is
\* "<nbsp>", and any other character above U+007F is "<U+XXXX>" (Chr below).
BT == "<grave>"

\* str.startswith
StartsWith(s, p) == Len(s) >= Len(p) /\ SubSeq(s, 1, Len(p)) = p

\* str.endswith
EndsWith(s, p) == Len(s) >= Len(p) /\ SubSeq(s, Len(s) - Len(p) + 1, Len(s)) = p

\* Characters str.strip() removes: those str.isspace() holds of.
PyWS ==
    {" ", "\t", "\n", "<vt>", "\f", "\r", "<fs>", "<gs>", "<rs>", "<us>",
     "<nel>", "<nbsp>", "<U+1680>", "<U+2000>", "<U+2001>", "<U+2002>",
     "<U+2003>", "<U+2004>", "<U+2005>", "<U+2006>", "<U+2007>", "<U+2008>",
     "<U+2009>", "<U+200A>", "<U+2028>", "<U+2029>", "<U+202F>", "<U+205F>",
     "<U+3000>"}

\* Characters the JSON decoder skips (json.decoder.WHITESPACE, [ \t\n\r]*).
JsonWS == {" ", "\t", "\n", "\r"}

\* The characters U+0000 to U+001F in order, which a strict JSON string may
\* not hold.
ControlSeq ==
    <<"<nul>", "<soh>", "<stx>", "<etx>", "<eot>", "<enq>", "<ack>", "<bel>",
      "<bs>", "\t", "\n", "<vt>", "\f", "\r", "<so>", "<si>",
      "<dle>", "<dc1>", "<dc2>", "<dc3>", "<dc4>", "<nak>", "<syn>", "<etb>",
      "<can>", "<em>", "<sub>", "<esc>", "<fs>", "<gs>", "<rs>", "<us>">>

ControlChars == {ControlSeq[k] : k \in 1..Len(ControlSeq)}

\* The index of the first character at or after i that is not in set, or
\* Len(s) + 1.
RunEnd(s, i, set) ==
    CHOOSE j \in i..(Len(s) + 1) :
        /\ j > Len(s) \/ s[j] \notin set
        /\ \A k \in i..(j - 1) : s[k] \in set

\* The number of characters of set that s ends with.
RunBack(s, set) ==
    CHOOSE n \in 0..Len(s) :
        /\ n = Len(s) \/ s[Len(s) - n] \notin set
        /\ \A k \in (Len(s) - n + 1)..Len(s) : s[k] \in set

\* str.lstrip()
LStrip(s) == SubSeq(s, RunEnd(s, 1, PyWS), Len(s))

\* str.rstrip()
RStrip(s) == SubSeq(s, 1, Len(s) - RunBack(s, PyWS))

\* str.strip()
Strip(s) == RStrip(LStrip(s))

\* --------------------------------------------------------------- characters
DigitChars == <<"0", "1", "2", "3", "4", "5", "6", "7", "8", "9">>

IsDigit(c) == \E d \in 1..10 : DigitChars[d] = c

HexUpper == DigitChars \o <<"A", "B", "C", "D", "E", "F">>

HexLower == DigitChars \o <<"a", "b", "c", "d", "e", "f">>

IsHex(c) == \E d \in 1..16 : HexUpper[d] = c \/ HexLower[d] = c

HexVal(c) == (CHOOSE d \in 1..16 : HexUpper[d] = c \/ HexLower[d] = c) - 1

UpperLetters ==
    <<"A", "B", "C", "D", "E", "F", "G", "H", "I", "J", "K", "L", "M",
      "N", "O", "P", "Q", "R", "S", "T", "U", "V", "W", "X", "Y", "Z">>

LowerLetters ==
    <<"a", "b", "c", "d", "e", "f", "g", "h", "i", "j", "k", "l", "m",
      "n", "o", "p", "q", "r", "s", "t", "u", "v", "w", "x", "y", "z">>

\* The characters U+0020 to U+007E in order.
PrintableSeq ==
    <<" ", "!", "\"", "#", "$", "%", "&", "'", "(", ")", "*", "+", ",", "-",
      ".", "/", "0", "1", "2", "3", "4", "5", "6", "7", "8", "9", ":", ";",
      "<", "=", ">", "?", "@">> \o UpperLetters \o
    <<"[", "\\", "]", "^", "_", BT>> \o LowerLetters \o <<"{", "|", "}", "~">>

\* n in hexadecimal, upper case, at least width digits, as a string.
RECURSIVE HexText(_, _)
HexText(n, width) ==
    IF n = 0 /\ width <= 0 THEN ""
    ELSE HexText(n \div 16, width - 1) \o HexUpper[(n % 16) + 1]

\* chr(n)
Chr(n) ==
    IF n < 32 THEN ControlSeq[n + 1]
    ELSE IF n < 127 THEN PrintableSeq[n - 31]
    ELSE IF n = 127 THEN "<del>"
    ELSE IF n = 133 THEN "<nel>"
    ELSE IF n = 160 THEN "<nbsp>"
    ELSE "<U+" \o HexText(n, 4) \o ">"

\* ---------------------------------------------------------------- str.lower
\* str.lower() follows the Unicode data the interpreter carries (CPython 3.11:
\* Unicode 14.0).  The lower-case mappings, as ranges of code points
\* <<lo, hi, step, d>>: every step-th code point n from lo to hi lowers to
\* n + d.  U+0130 and U+03A3 are apart (ToLower, LowerAt).
LowerRanges ==
    <<<<65, 90, 1, 32>>, <<192, 214, 1, 32>>, <<216, 222, 1, 32>>,
      <<256, 302, 2, 1>>, <<306, 310, 2, 1>>, <<313, 327, 2, 1>>,
      <<330, 374, 2, 1>>, <<376, 376, 1, -121>>, <<377, 381, 2, 1>>,
      <<385, 385, 1, 210>>, <<386, 388, 2, 1>>, <<390, 390, 1, 206>>,
      <<391, 391, 1, 1>>, <<393, 394, 1, 205>>, <<395, 395, 1, 1>>,
      <<398, 398, 1, 79>>, <<399, 399, 1, 202>>, <<400, 400, 1, 203>>,
      <<401, 401, 1, 1>>, <<403, 403, 1, 205>>, <<404, 404, 1, 207>>,
      <<406, 406, 1, 211>>, <<407, 407, 1, 209>>, <<408, 408, 1, 1>>,
      <<412, 412, 1, 211>>, <<413, 413, 1, 213>>, <<415, 415, 1, 214>>,
      <<416, 420, 2, 1>>, <<422, 422, 1, 218>>, <<423, 423, 1, 1>>,
      <<425, 425, 1, 218>>, <<428, 428, 1, 1>>, <<430, 430, 1, 218>>,
      <<431, 431, 1, 1>>, <<433, 434, 1, 217>>, <<435, 437, 2, 1>>,
      <<439, 439, 1, 219>>, <<440, 440, 1, 1>>, <<444, 444, 1, 1>>,
      <<452, 452, 1, 2>>, <<453, 453, 1, 1>>, <<455, 455, 1, 2>>,
      <<456, 456, 1, 1>>, <<458, 458, 1, 2>>, <<459, 475, 2, 1>>,
      <<478, 494, 2, 1>>, <<497, 497, 1, 2>>, <<498, 500, 2, 1>>,
      <<502, 502, 1, -97>>, <<503, 503, 1, -56>>, <<504, 542, 2, 1>>,
      <<544, 544, 1, -130>>, <<546, 562, 2, 1>>, <<570, 570, 1, 10795>>,
      <<571, 571, 1, 1>>, <<573, 573, 1, -163>>, <<574, 574, 1, 10792>>,
      <<577, 577, 1, 1>>, <<579, 579, 1, -195>>, <<580, 580, 1, 69>>,
      <<581, 581, 1, 71>>, <<582, 590, 2, 1>>, <<880, 882, 2, 1>>,
      <<886, 886, 1, 1>>, <<895, 895, 1, 116>>, <<902, 902, 1, 38>>,
      <<904, 906, 1, 37>>, <<908, 908, 1, 64>>, <<910, 911, 1, 63>>,
      <<913, 929, 1, 32>>, <<932, 939, 1, 32>>, <<975, 975, 1, 8>>,
      <<984, 1006, 2, 1>>, <<1012, 1012, 1, -60>>, <<1015, 1015, 1, 1>>,
      <<1017, 1017, 1, -7>>, <<1018, 1018, 1, 1>>, <<1021, 1023, 1, -130>>,
      <<1024, 1039, 1, 80>>, <<1040, 1071, 1, 32>>, <<1120, 1152, 2, 1>>,
      <<1162, 1214, 2, 1>>, <<1216, 1216, 1, 15>>, <<1217, 1229, 2, 1>>,
      <<1232, 1326, 2, 1>>, <<1329, 1366, 1, 48>>, <<4256, 4293, 1, 7264>>,
      <<4295, 4295, 1, 7264>>, <<4301, 4301, 1, 7264>>,
      <<5024, 5103, 1, 38864>>, <<5104, 5109, 1, 8>>, <<7312, 7354, 1, -3008>>,
      <<7357, 7359, 1, -3008>>, <<7680, 7828, 2, 1>>, <<7838, 7838, 1, -7615>>,
      <<7840, 7934, 2, 1>>, <<7944, 7951, 1, -8>>, <<7960, 7965, 1, -8>>,
      <<7976, 7983, 1, -8>>, <<7992, 7999, 1, -8>>, <<8008, 8013, 1, -8>>,
      <<8025, 8031, 2, -8>>, <<8040, 8047, 1, -8>>, <<8072, 8079, 1, -8>>,
      <<8088, 8095, 1, -8>>, <<8104, 8111, 1, -8>>, <<8120, 8121, 1, -8>>,
      <<8122, 8123, 1, -74>>, <<8124, 8124, 1, -9>>, <<8136, 8139, 1, -86>>,
      <<8140, 8140, 1, -9>>, <<8152, 8153, 1, -8>>, <<8154, 8155, 1, -100>>,
      <<8168, 8169, 1, -8>>, <<8170, 8171, 1, -112>>, <<8172, 8172, 1, -7>>,
      <<8184, 8185, 1, -128>>, <<8186, 8187, 1, -126>>, <<8188, 8188, 1, -9>>,
      <<8486, 8486, 1, -7517>>, <<8490, 8490, 1, -8383>>,
      <<8491, 8491, 1, -8262>>, <<8498, 8498, 1, 28>>, <<8544, 8559, 1, 16>>,
      <<8579, 8579, 1, 1>>, <<9398, 9423, 1, 26>>, <<11264, 11311, 1, 48>>,
      <<11360, 11360, 1, 1>>, <<11362, 11362, 1, -10743>>,
      <<11363, 11363, 1, -3814>>, <<11364, 11364, 1, -10727>>,
      <<11367, 11371, 2, 1>>, <<11373, 11373, 1, -10780>>,
      <<11374, 11374, 1, -10749>>, <<11375, 11375, 1, -10783>>,
      <<11376, 11376, 1, -10782>>, <<11378, 11378, 1, 1>>,
      <<11381, 11381, 1, 1>>, <<11390, 11391, 1, -10815>>,
      <<11392, 11490, 2, 1>>, <<11499, 11501, 2, 1>>, <<11506, 11506, 1, 1>>,
      <<42560, 42604, 2, 1>>, <<42624, 42650, 2, 1>>, <<42786, 42798, 2, 1>>,
      <<42802, 42862, 2, 1>>, <<42873, 42875, 2, 1>>,
      <<42877, 42877, 1, -35332>>, <<42878, 42886, 2, 1>>,
      <<42891, 42891, 1, 1>>, <<42893, 42893, 1, -42280>>,
      <<42896, 42898, 2, 1>>, <<42902, 42920, 2, 1>>,
      <<42922, 42922, 1, -42308>>, <<42923, 42923, 1, -42319>>,
      <<42924, 42924, 1, -42315>>, <<42925, 42925, 1, -42305>>,
      <<42926, 42926, 1, -42308>>, <<42928, 42928, 1, -42258>>,
      <<42929, 42929, 1, -42282>>, <<42930, 42930, 1, -42261>>,
      <<42931, 42931, 1, 928>>, <<42932, 42946, 2, 1>>,
      <<42948, 42948, 1, -48>>, <<42949, 42949, 1, -42307>>,
      <<42950, 42950, 1, -35384>>, <<42951, 42953, 2, 1>>,
      <<42960, 42960, 1, 1>>, <<42966, 42968, 2, 1>>, <<42997, 42997, 1, 1>>,
      <<65313, 65338, 1, 32>>, <<66560, 66599, 1, 40>>,
      <<66736, 66771, 1, 40>>, <<66928, 66938, 1, 39>>,
      <<66940, 66954, 1, 39>>, <<66956, 66962, 1, 39>>,
      <<66964, 66965, 1, 39>>, <<68736, 68786, 1, 64>>,
      <<71840, 71871, 1, 32>>, <<93760, 93791, 1, 32>>,
      <<125184, 125217, 1, 34>>>>

\* The characters with the property Cased that are not Case_Ignorable, as
\* ranges of code points <<lo, hi>>.
CasedRanges ==
    <<<<65, 90>>, <<97, 122>>, <<170, 170>>, <<181, 181>>, <<186, 186>>,
      <<192, 214>>, <<216, 246>>, <<248, 442>>, <<444, 447>>, <<452, 659>>,
      <<661, 687>>, <<880, 883>>, <<886, 887>>, <<891, 893>>, <<895, 895>>,
      <<902, 902>>, <<904, 906>>, <<908, 908>>, <<910, 929>>, <<931, 1013>>,
      <<1015, 1153>>, <<1162, 1327>>, <<1329, 1366>>, <<1376, 1416>>,
      <<4256, 4293>>, <<4295, 4295>>, <<4301, 4301>>, <<4304, 4346>>,
      <<4349, 4351>>, <<5024, 5109>>, <<5112, 5117>>, <<7296, 7304>>,
      <<7312, 7354>>, <<7357, 7359>>, <<7424, 7467>>, <<7531, 7543>>,
      <<7545, 7578>>, <<7680, 7957>>, <<7960, 7965>>, <<7968, 8005>>,
      <<8008, 8013>>, <<8016, 8023>>, <<8025, 8025>>, <<8027, 8027>>,
      <<8029, 8029>>, <<8031, 8061>>, <<8064, 8116>>, <<8118, 8124>>,
      <<8126, 8126>>, <<8130, 8132>>, <<8134, 8140>>, <<8144, 8147>>,
      <<8150, 8155>>, <<8160, 8172>>, <<8178, 8180>>, <<8182, 8188>>,
      <<8450, 8450>>, <<8455, 8455>>, <<8458, 8467>>, <<8469, 8469>>,
      <<8473, 8477>>, <<8484, 8484>>, <<8486, 8486>>, <<8488, 8488>>,
      <<8490, 8493>>, <<8495, 8500>>, <<8505, 8505>>, <<8508, 8511>>,
      <<8517, 8521>>, <<8526, 8526>>, <<8544, 8575>>, <<8579, 8580>>,
      <<9398, 9449>>, <<11264, 11387>>, <<11390, 11492>>, <<11499, 11502>>,
      <<11506, 11507>>, <<11520, 11557>>, <<11559, 11559>>, <<11565, 11565>>,
      <<42560, 42605>>, <<42624, 42651>>, <<42786, 42863>>, <<42865, 42887>>,
      <<42891, 42894>>, <<42896, 42954>>, <<42960, 42961>>, <<42963, 42963>>,
      <<42965, 42969>>, <<42997, 42998>>, <<43002, 43002>>, <<43824, 43866>>,
      <<43872, 43880>>, <<43888, 43967>>, <<64256, 64262>>, <<64275, 64279>>,
      <<65313, 65338>>, <<65345, 65370>>, <<66560, 66639>>, <<66736, 66771>>,
      <<66776, 66811>>, <<66928, 66938>>, <<66940, 66954>>, <<66956, 66962>>,
      <<66964, 66965>>, <<66967, 66977>>, <<66979, 66993>>, <<66995, 67001>>,
      <<67003, 67004>>, <<68736, 68786>>, <<68800, 68850>>, <<71840, 71903>>,
      <<93760, 93823>>, <<119808, 119892>>, <<119894, 119964>>,
      <<119966, 119967>>, <<119970, 119970>>, <<119973, 119974>>,
      <<119977, 119980>>, <<119982, 119993>>, <<119995, 119995>>,
      <<119997, 120003>>, <<120005, 120069>>, <<120071, 120074>>,
      <<120077, 120084>>, <<120086, 120092>>, <<120094, 120121>>,
      <<120123, 120126>>, <<120128, 120132>>, <<120134, 120134>>,
      <<120138, 120144>>, <<120146, 120485>>, <<120488, 120512>>,
      <<120514, 120538>>, <<120540, 120570>>, <<120572, 120596>>,
      <<120598, 120628>>, <<120630, 120654>>, <<120656, 120686>>,
      <<120688, 120712>>, <<120714, 120744>>, <<120746, 120770>>,
      <<120772, 120779>>, <<122624, 122633>>, <<122635, 122654>>,
      <<125184, 125251>>, <<127280, 127305>>, <<127312, 127337>>,
      <<127344, 127369>>>>

\* The characters with the property Case_Ignorable.
IgnorableRanges ==
    <<<<39, 39>>, <<46, 46>>, <<58, 58>>, <<94, 94>>, <<96, 96>>, <<168, 168>>,
      <<173, 173>>, <<175, 175>>, <<180, 180>>, <<183, 184>>, <<688, 879>>,
      <<884, 885>>, <<890, 890>>, <<900, 901>>, <<903, 903>>, <<1155, 1161>>,
      <<1369, 1369>>, <<1375, 1375>>, <<1425, 1469>>, <<1471, 1471>>,
      <<1473, 1474>>, <<1476, 1477>>, <<1479, 1479>>, <<1524, 1524>>,
      <<1536, 1541>>, <<1552, 1562>>, <<1564, 1564>>, <<1600, 1600>>,
      <<1611, 1631>>, <<1648, 1648>>, <<1750, 1757>>, <<1759, 1768>>,
      <<1770, 1773>>, <<1807, 1807>>, <<1809, 1809>>, <<1840, 1866>>,
      <<1958, 1968>>, <<2027, 2037>>, <<2042, 2042>>, <<2045, 2045>>,
      <<2070, 2093>>, <<2137, 2139>>, <<2184, 2184>>, <<2192, 2193>>,
      <<2200, 2207>>, <<2249, 2306>>, <<2362, 2362>>, <<2364, 2364>>,
      <<2369, 2376>>, <<2381, 2381>>, <<2385, 2391>>, <<2402, 2403>>,
      <<2417, 2417>>, <<2433, 2433>>, <<2492, 2492>>, <<2497, 2500>>,
      <<2509, 2509>>, <<2530, 2531>>, <<2558, 2558>>, <<2561, 2562>>,
      <<2620, 2620>>, <<2625, 2626>>, <<2631, 2632>>, <<2635, 2637>>,
      <<2641, 2641>>, <<2672, 2673>>, <<2677, 2677>>, <<2689, 2690>>,
      <<2748, 2748>>, <<2753, 2757>>, <<2759, 2760>>, <<2765, 2765>>,
      <<2786, 2787>>, <<2810, 2815>>, <<2817, 2817>>, <<2876, 2876>>,
      <<2879, 2879>>, <<2881, 2884>>, <<2893, 2893>>, <<2901, 2902>>,
      <<2914, 2915>>, <<2946, 2946>>, <<3008, 3008>>, <<3021, 3021>>,
      <<3072, 3072>>, <<3076, 3076>>, <<3132, 3132>>, <<3134, 3136>>,
      <<3142, 3144>>, <<3146, 3149>>, <<3157, 3158>>, <<3170, 3171>>,
      <<3201, 3201>>, <<3260, 3260>>, <<3263, 3263>>, <<3270, 3270>>,
      <<3276, 3277>>, <<3298, 3299>>, <<3328, 3329>>, <<3387, 3388>>,
      <<3393, 3396>>, <<3405, 3405>>, <<3426, 3427>>, <<3457, 3457>>,
      <<3530, 3530>>, <<3538, 3540>>, <<3542, 3542>>, <<3633, 3633>>,
      <<3636, 3642>>, <<3654, 3662>>, <<3761, 3761>>, <<3764, 3772>>,
      <<3782, 3782>>, <<3784, 3789>>, <<3864, 3865>>, <<3893, 3893>>,
      <<3895, 3895>>, <<3897, 3897>>, <<3953, 3966>>, <<3968, 3972>>,
      <<3974, 3975>>, <<3981, 3991>>, <<3993, 4028>>, <<4038, 4038>>,
      <<4141, 4144>>, <<4146, 4151>>, <<4153, 4154>>, <<4157, 4158>>,
      <<4184, 4185>>, <<4190, 4192>>, <<4209, 4212>>, <<4226, 4226>>,
      <<4229, 4230>>, <<4237, 4237>>, <<4253, 4253>>, <<4348, 4348>>,
      <<4957, 4959>>, <<5906, 5908>>, <<5938, 5939>>, <<5970, 5971>>,
      <<6002, 6003>>, <<6068, 6069>>, <<6071, 6077>>, <<6086, 6086>>,
      <<6089, 6099>>, <<6103, 6103>>, <<6109, 6109>>, <<6155, 6159>>,
      <<6211, 6211>>, <<6277, 6278>>, <<6313, 6313>>, <<6432, 6434>>,
      <<6439, 6440>>, <<6450, 6450>>, <<6457, 6459>>, <<6679, 6680>>,
      <<6683, 6683>>, <<6742, 6742>>, <<6744, 6750>>, <<6752, 6752>>,
      <<6754, 6754>>, <<6757, 6764>>, <<6771, 6780>>, <<6783, 6783>>,
      <<6823, 6823>>, <<6832, 6862>>, <<6912, 6915>>, <<6964, 6964>>,
      <<6966, 6970>>, <<6972, 6972>>, <<6978, 6978>>, <<7019, 7027>>,
      <<7040, 7041>>, <<7074, 7077>>, <<7080, 7081>>, <<7083, 7085>>,
      <<7142, 7142>>, <<7144, 7145>>, <<7149, 7149>>, <<7151, 7153>>,
      <<7212, 7219>>, <<7222, 7223>>, <<7288, 7293>>, <<7376, 7378>>,
      <<7380, 7392>>, <<7394, 7400>>, <<7405, 7405>>, <<7412, 7412>>,
      <<7416, 7417>>, <<7468, 7530>>, <<7544, 7544>>, <<7579, 7679>>,
      <<8125, 8125>>, <<8127, 8129>>, <<8141, 8143>>, <<8157, 8159>>,
      <<8173, 8175>>, <<8189, 8190>>, <<8203, 8207>>, <<8216, 8217>>,
      <<8228, 8228>>, <<8231, 8231>>, <<8234, 8238>>, <<8288, 8292>>,
      <<8294, 8303>>, <<8305, 8305>>, <<8319, 8319>>, <<8336, 8348>>,
      <<8400, 8432>>, <<11388, 11389>>, <<11503, 11505>>, <<11631, 11631>>,
      <<11647, 11647>>, <<11744, 11775>>, <<11823, 11823>>, <<12293, 12293>>,
      <<12330, 12333>>, <<12337, 12341>>, <<12347, 12347>>, <<12441, 12446>>,
      <<12540, 12542>>, <<40981, 40981>>, <<42232, 42237>>, <<42508, 42508>>,
      <<42607, 42610>>, <<42612, 42621>>, <<42623, 42623>>, <<42652, 42655>>,
      <<42736, 42737>>, <<42752, 42785>>, <<42864, 42864>>, <<42888, 42890>>,
      <<42994, 42996>>, <<43000, 43001>>, <<43010, 43010>>, <<43014, 43014>>,
      <<43019, 43019>>, <<43045, 43046>>, <<43052, 43052>>, <<43204, 43205>>,
      <<43232, 43249>>, <<43263, 43263>>, <<43302, 43309>>, <<43335, 43345>>,
      <<43392, 43394>>, <<43443, 43443>>, <<43446, 43449>>, <<43452, 43453>>,
      <<43471, 43471>>, <<43493, 43494>>, <<43561, 43566>>, <<43569, 43570>>,
      <<43573, 43574>>, <<43587, 43587>>, <<43596, 43596>>, <<43632, 43632>>,
      <<43644, 43644>>, <<43696, 43696>>, <<43698, 43700>>, <<43703, 43704>>,
      <<43710, 43711>>, <<43713, 43713>>, <<43741, 43741>>, <<43756, 43757>>,
      <<43763, 43764>>, <<43766, 43766>>, <<43867, 43871>>, <<43881, 43883>>,
      <<44005, 44005>>, <<44008, 44008>>, <<44013, 44013>>, <<64286, 64286>>,
      <<64434, 64450>>, <<65024, 65039>>, <<65043, 65043>>, <<65056, 65071>>,
      <<65106, 65106>>, <<65109, 65109>>, <<65279, 65279>>, <<65287, 65287>>,
      <<65294, 65294>>, <<65306, 65306>>, <<65342, 65342>>, <<65344, 65344>>,
      <<65392, 65392>>, <<65438, 65439>>, <<65507, 65507>>, <<65529, 65531>>,
      <<66045, 66045>>, <<66272, 66272>>, <<66422, 66426>>, <<67456, 67461>>,
      <<67463, 67504>>, <<67506, 67514>>, <<68097, 68099>>, <<68101, 68102>>,
      <<68108, 68111>>, <<68152, 68154>>, <<68159, 68159>>, <<68325, 68326>>,
      <<68900, 68903>>, <<69291, 69292>>, <<69446, 69456>>, <<69506, 69509>>,
      <<69633, 69633>>, <<69688, 69702>>, <<69744, 69744>>, <<69747, 69748>>,
      <<69759, 69761>>, <<69811, 69814>>, <<69817, 69818>>, <<69821, 69821>>,
      <<69826, 69826>>, <<69837, 69837>>, <<69888, 69890>>, <<69927, 69931>>,
      <<69933, 69940>>, <<70003, 70003>>, <<70016, 70017>>, <<70070, 70078>>,
      <<70089, 70092>>, <<70095, 70095>>, <<70191, 70193>>, <<70196, 70196>>,
      <<70198, 70199>>, <<70206, 70206>>, <<70367, 70367>>, <<70371, 70378>>,
      <<70400, 70401>>, <<70459, 70460>>, <<70464, 70464>>, <<70502, 70508>>,
      <<70512, 70516>>, <<70712, 70719>>, <<70722, 70724>>, <<70726, 70726>>,
      <<70750, 70750>>, <<70835, 70840>>, <<70842, 70842>>, <<70847, 70848>>,
      <<70850, 70851>>, <<71090, 71093>>, <<71100, 71101>>, <<71103, 71104>>,
      <<71132, 71133>>, <<71219, 71226>>, <<71229, 71229>>, <<71231, 71232>>,
      <<71339, 71339>>, <<71341, 71341>>, <<71344, 71349>>, <<71351, 71351>>,
      <<71453, 71455>>, <<71458, 71461>>, <<71463, 71467>>, <<71727, 71735>>,
      <<71737, 71738>>, <<71995, 71996>>, <<71998, 71998>>, <<72003, 72003>>,
      <<72148, 72151>>, <<72154, 72155>>, <<72160, 72160>>, <<72193, 72202>>,
      <<72243, 72248>>, <<72251, 72254>>, <<72263, 72263>>, <<72273, 72278>>,
      <<72281, 72283>>, <<72330, 72342>>, <<72344, 72345>>, <<72752, 72758>>,
      <<72760, 72765>>, <<72767, 72767>>, <<72850, 72871>>, <<72874, 72880>>,
      <<72882, 72883>>, <<72885, 72886>>, <<73009, 73014>>, <<73018, 73018>>,
      <<73020, 73021>>, <<73023, 73029>>, <<73031, 73031>>, <<73104, 73105>>,
      <<73109, 73109>>, <<73111, 73111>>, <<73459, 73460>>, <<78896, 78904>>,
      <<92912, 92916>>, <<92976, 92982>>, <<92992, 92995>>, <<94031, 94031>>,
      <<94095, 94111>>, <<94176, 94177>>, <<94179, 94180>>, <<110576, 110579>>,
      <<110581, 110587>>, <<110589, 110590>>, <<113821, 113822>>,
      <<113824, 113827>>, <<118528, 118573>>, <<118576, 118598>>,
      <<119143, 119145>>, <<119155, 119170>>, <<119173, 119179>>,
      <<119210, 119213>>, <<119362, 119364>>, <<121344, 121398>>,
      <<121403, 121452>>, <<121461, 121461>>, <<121476, 121476>>,
      <<121499, 121503>>, <<121505, 121519>>, <<122880, 122886>>,
      <<122888, 122904>>, <<122907, 122913>>, <<122915, 122916>>,
      <<122918, 122922>>, <<123184, 123197>>, <<123566, 123566>>,
      <<123628, 123631>>, <<125136, 125142>>, <<125252, 125259>>,
      <<127995, 127999>>, <<917505, 917505>>, <<917536, 917631>>,
      <<917760, 917999>>>>

\* The code points of a range of LowerRanges.
Points(r) == {n \in r[1]..r[2] : (n - r[1]) % r[3] = 0}

\* Each range of LowerRanges with its characters.
LowerBlocks ==
    {[r |-> LowerRanges[k], chars |-> {Chr(n) : n \in Points(LowerRanges[k])}] :
        k \in 1..Len(LowerRanges)}

\* The characters LowerRanges maps.
UpperChars == UNION {b.chars : b \in LowerBlocks}

\* The characters of ranges <<lo, hi>> of code points.
CharsOf(ranges) ==
    UNION {{Chr(n) : n \in ranges[k][1]..ranges[k][2]} : k \in 1..Len(ranges)}

CasedChars == CharsOf(CasedRanges)

CaseIgnorable == CharsOf(IgnorableRanges)

\* U+0130, the capital I with a dot above, and U+03A3, the capital sigma.
CapitalIDot == Chr(304)

CapitalSigma == Chr(931)

\* The lower case of the character c of the block b.
LowerIn(c, b) == Chr((CHOOSE n \in Points(b.r) : Chr(n) = c) + b.r[4])

\* The lower case of one character, as a text: U+0130 lowers to two
\* characters, "i" and U+0307.
ToLower(c) ==
    IF c = CapitalIDot THEN <<"i", Chr(775)>>
    ELSE IF c \notin UpperChars THEN <<c>>
    ELSE <<LowerIn(c, CHOOSE b \in LowerBlocks : c \in b.chars)>>

\* The capital sigma at i ends a word: a cased character stands before it,
\* case-ignorable characters at most between, and none stands after it so.
FinalSigma(s, i) ==
    /\ \E j \in 1..(i - 1) :
          s[j] \in CasedChars /\ \A k \in (j + 1)..(i - 1) : s[k] \in CaseIgnorable
    /\ ~\E j \in (i + 1)..Len(s) :
          s[j] \in CasedChars /\ \A k \in (i + 1)..(j - 1) : s[k] \in CaseIgnorable

\* The lower case of the character at i of s: U+03A3 lowers to the final
\* sigma U+03C2 at the end of a word and to U+03C3 elsewhere.
LowerAt(s, i) ==
    IF s[i] = CapitalSigma
    THEN <<IF FinalSigma(s, i) THEN Chr(962) ELSE Chr(963)>>
    ELSE ToLower(s[i])

\* The number of characters the lower case of s[1..k] has.
LowerLen(s, k) == k + Cardinality({j \in 1..k : s[j] = CapitalIDot})

\* The index of the character of s that character m of its lower case is from.
LowerSource(s, m) ==
    CHOOSE k \in 1..Len(s) : LowerLen(s, k - 1) < m /\ m <= LowerLen(s, k)

\* The character m of the lower case of s, from s[k].
LowerChar(s, m, k) == LowerAt(s, k)[m - LowerLen(s, k - 1)]

\* str.lower(): character by character where none lowers to two.
Lower(s) ==
    IF \A k \in 1..Len(s) : s[k] # CapitalIDot
    THEN [k \in 1..Len(s) |-> LowerAt(s, k)[1]]
    ELSE [m \in 1..LowerLen(s, Len(s)) |-> LowerChar(s, m, LowerSource(s, m))]

\* --------------------------------------------------------------- json.loads
\* A decoded JSON value: t is its kind, s the text of a string (or the decimal
\* text of an int, or the literal of a float), kids the members of an array or
\* object as pairs [k, v] (k = <<>> in an array).
JVal(t, s, kids) == [t |-> t, s |-> s, kids |-> kids]

\* A Python str as a value (what a JSON string decodes to).
PyStr(text) == JVal("str", text, <<>>)

\* The outcome of a scan that returns: the value and the index after it.
Scan(v, e) == [ok |-> TRUE, err |-> "", val |-> v, end |-> e]

\* The outcome of a scan that raises the exception err.
Raise(err) == [ok |-> FALSE, err |-> err, val |-> JVal("none", <<>>, <<>>), end |-> 0]

\* scan_once finds no value at the index: StopIteration, which raw_decode
\* turns into a JSONDecodeError ("Expecting value").
StopIteration == Raise("StopIteration")

\* raise JSONDecodeError(msg, doc, pos) with frames left on the call stack:
\* the call of the class, its __init__ and the calls __init__ makes take three
\* frames; with fewer the raise ends in a RecursionError (CPython 3.11).
Raised(frames) ==
    IF frames >= 3 THEN Raise("JSONDecodeError") ELSE Raise("RecursionError")

\* What the interpreter allows the scanner: nest is the number of frames left
\* above the scanner's own (each container it enters takes one:
\* Py_EnterRecursiveCall), digits the longest integer literal int() converts
\* (sys.get_int_max_str_digits()).
Limits(nest) == [nest |-> nest, digits |-> 4300]

\* The limits inside one more container.
Deeper(lim) == [lim EXCEPT !.nest = @ - 1]

\* raise_errmsg in the scanner.
ErrMsg(lim) == Raised(lim.nest)

\* WHITESPACE.match(s, i).end()
SkipWS(s, i) == RunEnd(s, i, JsonWS)

\* The index after the run of digits that starts at i.
ScanDigits(s, i) == RunEnd(s, i, {DigitChars[d] : d \in 1..10})

\* s[i:i+len(lit)] == lit
HasLit(s, i, lit) ==
    i + Len(lit) - 1 <= Len(s) /\ SubSeq(s, i, i + Len(lit) - 1) = lit

\* NUMBER_RE.match(s, i): (-?(?:0|[1-9]\d*))(\.\d+)?([eE][-+]?\d+)?
\* The index after the integer part that starts at j (a digit).
IntEnd(s, j) == IF s[j] = "0" THEN j + 1 ELSE ScanDigits(s, j)

\* The index after an optional (\.\d+) at j; d is the index after the digits.
FracTo(j, d) == IF d > j + 1 THEN d ELSE j

FracEnd(s, j) ==
    IF j <= Len(s) /\ s[j] = "." THEN FracTo(j, ScanDigits(s, j + 1)) ELSE j

\* The index of the first digit of an exponent whose letter is at j.
ExpDigits(s, j) ==
    IF j + 1 <= Len(s) /\ s[j + 1] \in {"-", "+"} THEN j + 2 ELSE j + 1

\* The index after an optional ([eE][-+]?\d+) at j; f is the index of its
\* first digit and d the index after its digits.
ExpTo(j, f, d) == IF d > f THEN d ELSE j

ExpEnd(s, j) ==
    IF j <= Len(s) /\ s[j] \in {"e", "E"}
    THEN ExpTo(j, ExpDigits(s, j), ScanDigits(s, ExpDigits(s, j))) ELSE j

\* int(text) as decimal text: "-0" is 0.
IntText(lit) == IF lit = <<"-", "0">> THEN <<"0">> ELSE lit

\* The number matched from i (j0 after the sign): its integer part ends
\* before e1, the whole match before e3.  int() refuses more than lim.digits
\* digits with a ValueError; float() takes any literal.
NumberTo(s, i, j0, e1, e3, lim) ==
    IF e3 > e1 THEN Scan(JVal("float", SubSeq(s, i, e3 - 1), <<>>), e3)
    ELSE IF e1 - j0 > lim.digits THEN Raise("ValueError")
    ELSE Scan(JVal("int", IntText(SubSeq(s, i, e1 - 1)), <<>>), e1)

NumberFrom(s, i, j0, e1, lim) ==
    NumberTo(s, i, j0, e1, ExpEnd(s, FracEnd(s, e1)), lim)

\* The number at j0, the index after an optional minus sign at i.
NumberAt(s, i, j0, lim) ==
    IF ~(j0 <= Len(s) /\ IsDigit(s[j0])) THEN StopIteration
    ELSE NumberFrom(s, i, j0, IntEnd(s, j0), lim)

ScanNumber(s, i, lim) ==
    NumberAt(s, i, IF i <= Len(s) /\ s[i] = "-" THEN i + 1 ELSE i, lim)

\* Characters that end a chunk of a JSON string: the quote, the backslash and
\* the control characters (STRINGCHUNK, strict).
StringStops == {"\"", "\\"} \cup ControlChars

\* The index of the first character at or after i that ends a string chunk,
\* or Len(s) + 1.
ChunkEnd(s, i) ==
    CHOOSE j \in i..(Len(s) + 1) :
        /\ j > Len(s) \/ s[j] \in StringStops
        /\ \A k \in i..(j - 1) : s[k] \notin StringStops

\* The characters that may follow a backslash, "u" apart (BACKSLASH).
SimpleEscapes == {"\"", "\\", "/", "b", "f", "n", "r", "t"}

EscChar(c) ==
    CASE c = "b" -> "<bs>" [] c = "f" -> "\f" [] c = "n" -> "\n"
      [] c = "r" -> "\r" [] c = "t" -> "\t" [] OTHER -> c

\* Four hexadecimal digits stand at i.
Hex4Ok(s, i) == i + 3 <= Len(s) /\ \A k \in i..(i + 3) : IsHex(s[k])

\* Their value.
Hex4(s, i) ==
    4096 * HexVal(s[i]) + 256 * HexVal(s[i + 1]) + 16 * HexVal(s[i + 2])
    + HexVal(s[i + 3])

\* A \uXXXX escape for a low surrogate stands at i.
LowSurrogateAt(s, i) ==
    /\ HasLit(s, i, <<"\\", "u">>)
    /\ Hex4Ok(s, i + 2)
    /\ Hex4(s, i + 2) \in 56320..57343

RECURSIVE StrChars(_, _, _, _)

\* The escape \uXXXX whose "u" is at e; a high surrogate joins the low
\* surrogate escaped right after it.
UEscape(s, e, acc, lim) ==
    IF ~Hex4Ok(s, e + 1) THEN ErrMsg(lim)
    ELSE IF Hex4(s, e + 1) \in 55296..56319 /\ LowSurrogateAt(s, e + 5)
    THEN StrChars(s, e + 11,
                  Append(acc, Chr(65536 + 1024 * (Hex4(s, e + 1) - 55296)
                                  + (Hex4(s, e + 7) - 56320))), lim)
    ELSE StrChars(s, e + 5, Append(acc, Chr(Hex4(s, e + 1))), lim)

\* The escape whose character after the backslash is at e.
Escape(s, e, acc, lim) ==
    IF e > Len(s) THEN ErrMsg(lim)
    ELSE IF s[e] = "u" THEN UEscape(s, e, acc, lim)
    ELSE IF s[e] \in SimpleEscapes
    THEN StrChars(s, e + 1, Append(acc, EscChar(s[e])), lim)
    ELSE ErrMsg(lim)

\* The chunk from i that ends before j: the closing quote ends the string, a
\* backslash starts an escape, a control character or the end of s is an error.
StrChunk(s, i, j, acc, lim) ==
    IF j > Len(s) THEN ErrMsg(lim)
    ELSE IF s[j] = "\"" THEN Scan(PyStr(acc \o SubSeq(s, i, j - 1)), j + 1)
    ELSE IF s[j] = "\\" THEN Escape(s, j + 1, acc \o SubSeq(s, i, j - 1), lim)
    ELSE ErrMsg(lim)

\* The loop of scanstring: acc holds the characters decoded before i.
StrChars(s, i, acc, lim) == StrChunk(s, i, ChunkEnd(s, i), acc, lim)

\* scanstring(s, i, strict=True), i the index after the opening quote; its
\* errors are raised from the scanner's frame.
ScanString(s, i, lim) == StrChars(s, i, <<>>, lim)

\* dict[key] = value on the list of pairs: a repeated key keeps its place and
\* takes the later value.
PutPair(pairs, key, v) ==
    IF \E p \in 1..Len(pairs) : pairs[p].k = key
    THEN [p \in 1..Len(pairs) |->
            IF pairs[p].k = key THEN [k |-> key, v |-> v] ELSE pairs[p]]
    ELSE Append(pairs, [k |-> key, v |-> v])

RECURSIVE ScanOnce(_, _, _)
RECURSIVE ObjMembers(_, _, _, _)
RECURSIVE ArrItems(_, _, _, _)

\* JSONObject after a member: d is the index of the next non-blank character,
\* which must be "}" or a "," followed by the opening quote of a key.
ObjKey(s, pairs, q, lim) ==
    IF q <= Len(s) /\ s[q] = "\"" THEN ObjMembers(s, q + 1, pairs, lim)
    ELSE ErrMsg(lim)

ObjNext(s, pairs, d, lim) ==
    IF d > Len(s) THEN ErrMsg(lim)
    ELSE IF s[d] = "}" THEN Scan(JVal("obj", <<>>, pairs), d + 1)
    ELSE IF s[d] # "," THEN ErrMsg(lim)
    ELSE ObjKey(s, pairs, SkipWS(s, d + 1), lim)

\* JSONObject after a member's value v was scanned; what v raised goes on.
ObjValue(s, key, v, acc, lim) ==
    IF ~v.ok THEN v
    ELSE ObjNext(s, PutPair(acc, key, v.val), SkipWS(s, v.end), lim)

\* JSONObject after a key: c is the index of the next non-blank character,
\* which must be ":".
ObjColon(s, key, c, acc, lim) ==
    IF ~(c <= Len(s) /\ s[c] = ":") THEN ErrMsg(lim)
    ELSE ObjValue(s, key, ScanOnce(s, SkipWS(s, c + 1), lim), acc, lim)

ObjKeyed(s, key, acc, lim) ==
    IF ~key.ok THEN key ELSE ObjColon(s, key.val.s, SkipWS(s, key.end), acc, lim)

\* The loop of JSONObject: i is the index after the opening quote of a key.
ObjMembers(s, i, acc, lim) == ObjKeyed(s, ScanString(s, i, lim), acc, lim)

\* JSONObject: q is the index of the first non-blank character after "{".
JSONObject(s, q, lim) ==
    IF q > Len(s) THEN ErrMsg(lim)
    ELSE IF s[q] = "}" THEN Scan(JVal("obj", <<>>, <<>>), q + 1)
    ELSE ObjKey(s, <<>>, q, lim)

\* JSONArray after an item: d is the index of the next non-blank character,
\* which must be "]" or ",".
ArrNext(s, items, d, lim) ==
    IF d > Len(s) THEN ErrMsg(lim)
    ELSE IF s[d] = "]" THEN Scan(JVal("arr", <<>>, items), d + 1)
    ELSE IF s[d] # "," THEN ErrMsg(lim)
    ELSE ArrItems(s, SkipWS(s, d + 1), items, lim)

\* JSONArray after an item's value v was scanned; what v raised goes on.
ArrValue(s, v, acc, lim) ==
    IF ~v.ok THEN v
    ELSE ArrNext(s, Append(acc, [k |-> <<>>, v |-> v.val]), SkipWS(s, v.end), lim)

\* The loop of JSONArray: i is the index of the next value.
ArrItems(s, i, acc, lim) == ArrValue(s, ScanOnce(s, i, lim), acc, lim)

\* JSONArray: q is the index of the first non-blank character after "[".
JSONArray(s, q, lim) ==
    IF q <= Len(s) /\ s[q] = "]"
    THEN Scan(JVal("arr", <<>>, <<>>), q + 1)
    ELSE ArrItems(s, q, <<>>, lim)

\* parse_constant(name): a call, which takes a frame.
Constant(name, e, lim) ==
    IF lim.nest = 0 THEN Raise("RecursionError")
    ELSE Scan(JVal("float", name, <<>>), e)

\* The last branches of scan_once: a number, else NaN, Infinity, -Infinity.
NumberOrConstant(s, i, number, lim) ==
    IF number.ok \/ number.err # "StopIteration" THEN number
    ELSE IF HasLit(s, i, <<"N", "a", "N">>)
        THEN Constant(<<"N", "a", "N">>, i + 3, lim)
    ELSE IF HasLit(s, i, <<"I", "n", "f", "i", "n", "i", "t", "y">>)
        THEN Constant(SubSeq(s, i, i + 7), i + 8, lim)
    ELSE IF HasLit(s, i, <<"-", "I", "n", "f", "i", "n", "i", "t", "y">>)
        THEN Constant(SubSeq(s, i, i + 8), i + 9, lim)
    ELSE StopIteration

\* A container opened at i: entering it takes a frame and raises
\* RecursionError when none is left.
Enter(s, i, lim) ==
    IF lim.nest = 0 THEN Raise("RecursionError")
    ELSE IF s[i] = "{" THEN JSONObject(s, SkipWS(s, i + 1), Deeper(lim))
    ELSE JSONArray(s, SkipWS(s, i + 1), Deeper(lim))

\* scanner.scan_once(s, i)
ScanOnce(s, i, lim) ==
    IF i > Len(s) THEN StopIteration
    ELSE IF s[i] = "\"" THEN ScanString(s, i + 1, lim)
    ELSE IF s[i] \in {"{", "["} THEN Enter(s, i, lim)
    ELSE IF HasLit(s, i, <<"n", "u", "l", "l">>)
        THEN Scan(JVal("null", <<>>, <<>>), i + 4)
    ELSE IF HasLit(s, i, <<"t", "r", "u", "e">>)
        THEN Scan(JVal("true", <<>>, <<>>), i + 4)
    ELSE IF HasLit(s, i, <<"f", "a", "l", "s", "e">>)
        THEN Scan(JVal("false", <<>>, <<>>), i + 5)
    ELSE NumberOrConstant(s, i, ScanNumber(s, i, lim), lim)

\* JSONDecoder.decode after scan_once returned v: raw_decode, one frame below
\* the scanner, raises "Expecting value" for a StopIteration; decode, two
\* frames below, raises "Extra data" unless only blanks follow the value.
Decoded(s, v, lim) ==
    IF v.err = "StopIteration" THEN Raised(lim.nest + 1)
    ELSE IF ~v.ok THEN v
    ELSE IF SkipWS(s, v.end) = Len(s) + 1 THEN v
    ELSE Raised(lim.nest + 2)

\* JSONDecoder.decode(s) under the limits lim of its scanner.
Decode(s, lim) == Decoded(s, ScanOnce(s, SkipWS(s, 1), lim), lim)

\* json.loads(s) called with `left` frames left on the call stack (the
\* recursion limit less the frames in use): loads, decode, raw_decode and the
\* call of the scanner take four; loads itself refuses a text that starts with
\* a byte order mark.  ok where it returns; err names the
\* exception where it raises: JSONDecodeError for a malformed text,
\* RecursionError where the frames run out, ValueError for an integer literal
\* too long.
JsonLoads(s, left) ==
    IF left < 4 THEN Raise("RecursionError")
    ELSE IF StartsWith(s, <<Chr(65279)>>) THEN Raised(left - 1)
    ELSE Decode(s, Limits(left - 4))

\* ------------------------------------------------------- response sanitizer
\* The opening code-fence marker the handlers look for.
FenceOpen == <<BT, BT, BT, "j", "s", "o", "n">>

\* The closing code-fence marker.
FenceClose == <<BT, BT, BT>>

\* Mutant: the last three characters are cut without the endswith test.
StripFence_always_cuts(t) ==
    LET a == IF StartsWith(t, FenceOpen) THEN SubSeq(t, 7 + 1, Len(t)) ELSE t
    IN  SubSeq(a, 1, Len(a) - 3)

\* if text.startswith(FenceOpen): text = text[7:]
\* if text.endswith(FenceClose):  text = text[:-3]
StripFence(t) ==
    LET a == IF StartsWith(t, FenceOpen) THEN SubSeq(t, 7 + 1, Len(t)) ELSE t
    IN  IF EndsWith(a, FenceClose) THEN SubSeq(a, 1, Len(a) - 3) ELSE a

\* output_text after .strip() and the two fence tests.
Sanitize(raw) == StripFence(Strip(raw))

\* ---------------------------------------------------------------- responses
\* A handler's return value, sent as a 200 response.
Return(body) == [code |-> 200, detail |-> "", body |-> body]

\* raise HTTPException(status_code, detail)
HTTPException(status_code, detail) ==
    [code |-> status_code, detail |-> detail, body |-> <<>>]

\* An exception no handler catches: the framework answers 500.
Unhandled == [code |-> 500, detail |-> "Internal Server Error", body |-> <<>>]

\* One call to an external service: its api, its arguments, what came back.
Call(api, args, back) == [api |-> api, args |-> args, back |-> back]

\* ------------------------------------------------------------ configuration
MAX_TOKENS == 1000
NEBIUS_MODEL_NAME == "Qwen/Qwen2-VL-7B-Instruct"
GEMINI_MODEL_NAME == "gemini-2.0-flash"

\* The system message of the Nebius chat.
SystemPrompt == "You are an expert image analyst."

PrescriptionPrompt == "For this prescription document image, provide a JSON ..."
LabRequisitionPrompt == "You are given this lab requisition form image to digitize ..."

\* ------------------------------------------------------------ vision backends
\* Mutant: the status code of the download is not looked at.
Fetched_ignores_status(dl) == dl.kind = "response"

\* The download succeeded: requests.get returned and status_code is 200.
Fetched(dl) == dl.kind = "response" /\ dl.status_code = 200

\* Mutant: the fallback result is tagged "success" like a parsed one.
gemini_parsed_untagged(output_text, parsed) ==
    IF parsed.ok
    THEN Return([description |-> parsed.val, status |-> "success"])
    ELSE IF parsed.err = "JSONDecodeError"
    THEN Return([description |-> PyStr(output_text), status |-> "success",
                 message |-> "Could not parse response as JSON"])
    ELSE HTTPException(500, "Error processing image with Gemini")

\* The inner try of analyze_image_with_gemini, parsed being what json.loads
\* did: its value is returned as a success, its JSONDecodeError becomes a
\* warning result, and any other exception leaves the inner try for the outer
\* handler, which turns it into a 500.
gemini_parsed(output_text, parsed) ==
    IF parsed.ok
    THEN Return([description |-> parsed.val, status |-> "success"])
    ELSE IF parsed.err = "JSONDecodeError"
    THEN Return([description |-> PyStr(output_text), status |-> "warning",
                 message |-> "Could not parse response as JSON"])
    ELSE HTTPException(500, "Error processing image with Gemini")

\* The end of analyze_image_with_gemini, from json.loads on, with `left`
\* frames left on the call stack.
gemini_result(output_text, left) ==
    gemini_parsed(output_text, JsonLoads(output_text, left))

\* analyze_image_with_gemini(image_url): dl is what requests.get does, gen what
\* generate_content does, left the frames the callers of the function (the
\* route, the framework, the event loop) leave it on the call stack.  The
\* value is the calls made and the response.
analyze_image_with_gemini(image_url, dl, gen, left) ==
    LET get == Call("requests.get", [url |-> image_url], dl)
        generate == Call("gemini.models.generate_content",
                         [model |-> GEMINI_MODEL_NAME,
                          prompt |-> LabRequisitionPrompt,
                          data |-> dl.content, mime_type |-> "image/jpeg"], gen)
        wrapped == HTTPException(500, "Error processing image with Gemini")
    IN  IF ~Fetched(dl) THEN [calls |-> <<get>>, resp |-> wrapped]
        ELSE IF gen.kind # "text"
        THEN [calls |-> <<get, generate>>, resp |-> wrapped]
        ELSE [calls |-> <<get, generate>>,
              resp |-> gemini_result(Sanitize(gen.text), left)]

\* Mutant: the prescription path degrades to a warning like the other path.
nebius_parsed_warns(output_text, parsed) ==
    IF parsed.ok
    THEN Return([description |-> parsed.val, status |-> "success"])
    ELSE IF parsed.err = "JSONDecodeError"
    THEN Return([description |-> PyStr(output_text), status |-> "warning",
                 message |-> "Could not parse response as JSON"])
    ELSE HTTPException(500, "Error processing image with Nebius")

\* The end of the try of analyze_image_with_nebius, parsed being what
\* json.loads did: its value is returned as a success, and whatever it raises
\* is turned into a 500 by the function's one handler.
nebius_parsed(output_text, parsed) ==
    IF parsed.ok
    THEN Return([description |-> parsed.val, status |-> "success"])
    ELSE HTTPException(500, "Error processing image with Nebius")

\* The end of analyze_image_with_nebius, from json.loads on, with `left`
\* frames left on the call stack.
nebius_result(output_text, left) ==
    nebius_parsed(output_text, JsonLoads(output_text, left))

\* analyze_image_with_nebius(image_url, prompt_text): comp is what
\* chat.completions.create does, left the frames the callers of the function
\* leave it on the call stack.
analyze_image_with_nebius(image_url, prompt_text, comp, left) ==
    LET create == Call("nebius.chat.completions.create",
                       [model |-> NEBIUS_MODEL_NAME,
                        system |-> SystemPrompt, prompt |-> prompt_text,
                        url |-> image_url, max_tokens |-> MAX_TOKENS,
                        temperature |-> "0.3"], comp)
    IN  IF comp.kind # "text"
        THEN [calls |-> <<create>>,
              resp |-> HTTPException(500, "Error processing image with Nebius")]
        ELSE [calls |-> <<create>>,
              resp |-> nebius_result(Sanitize(comp.text), left)]

\* ------------------------------------------------------------- content store
\* The URL the store serves a resource at.
SecureUrl(public_id) == <<"https://res.cloudinary.com/">> \o public_id

\* The resource an upload into `folder` creates when the store holds n.
NewResource(folder, n, by) ==
    LET public_id == folder \o <<"/", DigitChars[n + 1]>>
    IN  [public_id |-> public_id, secure_url |-> SecureUrl(public_id), by |-> by]

\* cloudinary.api.resources(prefix=...): the resources whose public id starts
\* with the prefix, in the store's order.
Resources(st, prefix) ==
    LET hit(r) == StartsWith(r.public_id, prefix)
        item(r) == [public_id |-> r.public_id, secure_url |-> r.secure_url]
        found == SelectSeq(st, hit)
    IN  [k \in 1..Len(found) |-> item(found[k])]

\* Mutant: the extension test without .lower().
UploadOptions_case_sensitive(filename, folder) ==
    IF EndsWith(filename, <<".", "p", "d", "f">>)
    THEN [folder |-> folder, resource_type |-> "auto", format |-> "jpg", page |-> "1"]
    ELSE [folder |-> folder, resource_type |-> "auto"]

\* upload_options as upload_file_to_cloudinary builds it.
UploadOptions(filename, folder) ==
    IF EndsWith(Lower(filename), <<".", "p", "d", "f">>)
    THEN [folder |-> folder, resource_type |-> "auto", format |-> "jpg", page |-> "1"]
    ELSE [folder |-> folder, resource_type |-> "auto"]

\* upload_file_to_cloudinary(file, folder): ans is what the store does with the
\* upload ("ok": stores it and answers with its URL; "nourl": answers without
\* a secure_url; "raise": the SDK raises), new the resource it would create.
upload_file_to_cloudinary(file, folder, ans, new) ==
    LET file_bytes == file.bytes
        upload == Call("cloudinary.uploader.upload",
                       [data |-> file_bytes,
                        options |-> UploadOptions(file.filename, folder)], ans)
    IN  IF ans = "raise"
        THEN [calls |-> <<upload>>, raised |-> TRUE, resp |-> Unhandled,
              url |-> <<>>, stored |-> <<>>]
        ELSE IF ans = "nourl"
        THEN [calls |-> <<upload>>, raised |-> TRUE,
              resp |-> HTTPException(500, "Cloudinary upload failed."),
              url |-> <<>>, stored |-> <<>>]
        ELSE [calls |-> <<upload>>, raised |-> FALSE, resp |-> Unhandled,
              url |-> new.secure_url, stored |-> <<new>>]

PrescriptionsFolder ==
    <<"p", "r", "e", "s", "c", "r", "i", "p", "t", "i", "o", "n", "s">>

LabRequisitionsFolder ==
    <<"l", "a", "b", "-", "r", "e", "q", "u", "i", "s", "i", "t", "i", "o", "n", "s">>

PrescriptionsPrefix == PrescriptionsFolder \o <<"/">>

\* Mutant: the lab-requisition list queries the other folder.
LabRequisitionsPrefix_copied == PrescriptionsFolder \o <<"/">>

LabRequisitionsPrefix == LabRequisitionsFolder \o <<"/">>

\* Mutant: response["resources"] in place of response.get("resources", []).
FetchImages_requires_key(st, prefix, ans, detail) ==
    LET found == Resources(st, prefix)
        response == IF ans = "list" THEN [resources |-> found] ELSE <<>>
        list == Call("cloudinary.api.resources",
                     [type |-> "upload", resource_type |-> "image",
                      prefix |-> prefix],
                     IF ans = "raise" THEN [raised |-> TRUE] ELSE response)
    IN  IF ans = "raise" \/ "resources" \notin DOMAIN response
        THEN [calls |-> <<list>>, resp |-> HTTPException(500, detail)]
        ELSE [calls |-> <<list>>,
              resp |-> Return([images |->
                  [k \in 1..Len(found) |-> found[k].secure_url]])]

\* The body of both fetch handlers: ans is what cloudinary.api.resources does
\* ("raise"; "nokey": it answers with a dict without a resources entry, here
\* the empty one; "list").
FetchImages(st, prefix, ans, detail) ==
    LET found == Resources(st, prefix)
        response == IF ans = "list" THEN [resources |-> found] ELSE <<>>
        list == Call("cloudinary.api.resources",
                     [type |-> "upload", resource_type |-> "image",
                      prefix |-> prefix],
                     IF ans = "raise" THEN [raised |-> TRUE] ELSE response)
        resources == IF "resources" \in DOMAIN response
                     THEN response.resources ELSE <<>>
    IN  IF ans = "raise"
        THEN [calls |-> <<list>>, resp |-> HTTPException(500, detail)]
        ELSE [calls |-> <<list>>,
              resp |-> Return([images |->
                  [k \in 1..Len(resources) |-> resources[k].secure_url]])]

\* ---------------------------------------------------------------- the inputs
\* Runs of one character c, at most MaxPad long.
Pads(chars) == {[k \in 1..n |-> c] : c \in chars, n \in 0..MaxPad}

\* n times the character c.
Run(c, n) == [k \in 1..n |-> c]

\* An integer literal one digit longer than int() converts.
LongInt == Run("1", Limits(0).digits + 1)

\* Texts that make json.loads raise ValueError: LongInt, which is valid JSON,
\* and an array left open after it, which is not.
LongBodies == { LongInt, <<"[">> \o LongInt }

Bodies ==
    { <<"{", "\"", "a", "\"", ":", "1", "}">>,
      <<"{", "}">>,
      <<"[", "1", ",", " ", "2", "]">>,
      <<"\"", "a", "\"">>,
      <<"-", "1", "0">>,
      <<"n", "u", "l", "l">>,
      <<"{", "\"", "a", "\"", ":", "1", ",", "\"", "a", "\"", ":", "2", "}">>,
      <<"\"", "a", "\\", "\"", "b", "\"">>,
      <<"\"", "\\", "n", "\\", "u", "0", "0", "e", "9", "\"">>,
      <<>>,
      <<"n", "o">>,
      <<"{", "a", ":", "1", "}">>,
      <<"[", "1", ",", "]">>,
      <<"\"", "a", "\n", "\"">>,
      <<"\"", "a", "<vt>", "\"">>,
      <<"\"", "\\", "\"">>,
      <<"\"", "\\", "x", "\"">>,
      <<"{", "}", " ", "x">>,
      <<"[", "[", "1", " ", "2", "]", "]">>,
      <<"[", "N", "a", "N", "]">>,
      <<BT, BT>> }

\* The texts a backend returns, each as its parts: a body, optionally fenced,
\* padded inside the fence and around the whole.
PaddedReplies ==
    [outer : Pads({"<vt>"}), open : {<<>>, FenceOpen}, in1 : Pads({"\n", "\f"}),
     body : Bodies, in2 : Pads({"\n"}), close : {<<>>, FenceClose}]

\* The long texts, fenced or not on either side.
LongReplies ==
    [outer : {<<>>}, open : {<<>>, FenceOpen}, in1 : {<<"\n">>},
     body : LongBodies, in2 : {<<"\n">>}, close : {<<>>, FenceClose}]

Replies == PaddedReplies \cup LongReplies

\* One of them: the fenced JSON text of the prompt's example.
CoreReplies ==
    [outer : {<<>>}, open : {FenceOpen}, in1 : {<<"\n">>},
     body : {<<"{", "\"", "a", "\"", ":", "1", "}">>},
     in2 : {<<"\n">>}, close : {FenceClose}]

\* The text of a reply.
Text(r) == r.outer \o r.open \o r.in1 \o r.body \o r.in2 \o r.close \o r.outer

\* What a backend call does: it raises, answers without a text, or answers
\* with the text t.
BackendOutcomes(t) ==
    {[kind |-> "raise"], [kind |-> "none"], [kind |-> "text", text |-> t]}

Downloads ==
    { [kind |-> "raise"],
      [kind |-> "response", status_code |-> 404, content |-> "not found"],
      [kind |-> "response", status_code |-> 200, content |-> "jpeg bytes"] }

ImageUrls == { SecureUrl(PrescriptionsFolder \o <<"/", "0">>) }

Filenames ==
    { <<"B", ".", "P", "d", "F">>,
      <<"a", ".", "j", "p", "g">>, <<"p", "d", "f">>,
      <<"a", ".", "p", "d", "f", ".", "j", "p", "g">>,
      <<Chr(304), ".", "P", "D", "F">>,
      <<"a", ".", Chr(65328), Chr(65316), Chr(65318)>> }

\* The files of upload requests: each name with its content.
Files ==
    {[filename |-> fn,
      bytes |-> IF fn[1] = "B" THEN "bytes-2" ELSE "bytes-1"] : fn \in Filenames}

\* The frames left on the call stack where a handler calls json.loads: what
\* the deployment's recursion limit leaves after the frames of the event loop,
\* the framework and the route.  Four let json.loads reach its scanner; with
\* MaxLeft every text of Bodies is decoded, or refused, as with any larger
\* number.
StackLeft == 4..MaxLeft

\* The frames left where the handler calls json.loads with what the backend
\* did; a handler that does not get there has none to count.
FramesAt(back) == IF back.kind = "text" THEN StackLeft ELSE {0}

UploadAnswers == {"ok", "nourl", "raise"}

ListAnswers == {"list", "nokey", "raise"}

\* -------------------------------------------------------------------- state
\* store:   the resources the content store holds, oldest first.
\* reading: the upload requests whose handler awaits the bytes of its file.
\* req:     the last request answered: its route, its input, the external
\*          calls the handler made and the response sent.
\* reply:   the text the vision backends generate in this run, as its parts.
VARIABLES store, reading, req, reply
vars == <<store, reading, req, reply>>

Request(route, cat, op, input, calls, resp) ==
    [route |-> route, cat |-> cat, op |-> op, input |-> input,
     calls |-> calls, resp |-> resp]

Idle == Request("none", "none", "none", <<>>, <<>>, Unhandled)

\* The category that uploads into a folder.
Uploader(folder) ==
    IF folder = PrescriptionsFolder THEN "prescription" ELSE "lab-requisition"

\* What the store may hold when the program starts: for each of its resources,
\* one of the two folders, uploaded by an earlier run.
Stores ==
    UNION {{[k \in 1..n |-> NewResource(f[k], k - 1, Uploader(f[k]))] :
              f \in [1..n -> {PrescriptionsFolder, LabRequisitionsFolder}]} :
           n \in 0..MaxStore}

Init ==
    /\ store \in Stores
    /\ reading = {}
    /\ req = Idle
    /\ reply \in CoreReplies

\* An upload request at `await file.read()`: its route and its file.
Reading(route, file) == [route |-> route, file |-> file]

\* Both upload handlers up to `await file.read()` in upload_file_to_cloudinary:
\* the request waits for the bytes while other requests are served.  At most
\* MaxReading requests wait.
ReadFile(route) ==
    \E file \in Files :
        /\ Cardinality(reading) < MaxReading
        /\ Reading(route, file) \notin reading
        /\ reading' = reading \cup {Reading(route, file)}
        /\ UNCHANGED <<store, req, reply>>

\* The end of an upload handler: r is what upload_file_to_cloudinary did for
\* the request u.
Uploaded(u, cat, message, r) ==
    /\ reading' = reading \ {u}
    /\ store' = store \o r.stored
    /\ req' = Request(u.route, cat, "upload", u.file, r.calls,
                      IF r.raised THEN r.resp
                      ELSE Return([message |-> message, url |-> r.url]))
    /\ UNCHANGED reply

\* Both upload handlers from the bytes read on.  The store takes a resource
\* while it holds fewer than MaxStore.
Upload(route, cat, folder, message) ==
    \E u \in reading, ans \in UploadAnswers :
        /\ u.route = route
        /\ ans = "ok" => Len(store) < MaxStore
        /\ Uploaded(u, cat, message,
                    upload_file_to_cloudinary(u.file, folder, ans,
                        NewResource(folder, Len(store), cat)))

\* POST /upload-prescription/ arrives.
upload_prescription_reads == ReadFile("/upload-prescription/")

\* POST /upload-lab-requisition/ arrives.
upload_lab_requisition_reads == ReadFile("/upload-lab-requisition/")

\* POST /upload-prescription/, the bytes read.
upload_prescription ==
    Upload("/upload-prescription/", "prescription", PrescriptionsFolder,
           "Prescription uploaded successfully")

\* POST /upload-lab-requisition/, the bytes read.
upload_lab_requisition ==
    Upload("/upload-lab-requisition/", "lab-requisition", LabRequisitionsFolder,
           "Lab requisition uploaded successfully")

\* GET /fetch-prescriptions/
fetch_prescriptions ==
    \E ans \in ListAnswers :
        LET r == FetchImages(store, PrescriptionsPrefix, ans,
                             "Error fetching prescriptions")
        IN  /\ req' = Request("/fetch-prescriptions/", "prescription", "list",
                              <<>>, r.calls, r.resp)
            /\ UNCHANGED <<store, reading, reply>>

\* GET /fetch-lab-requisitions/
fetch_lab_requisitions ==
    \E ans \in ListAnswers :
        LET r == FetchImages(store, LabRequisitionsPrefix, ans,
                             "Error fetching lab requisitions")
        IN  /\ req' = Request("/fetch-lab-requisitions/", "lab-requisition", "list",
                              <<>>, r.calls, r.resp)
            /\ UNCHANGED <<store, reading, reply>>

\* POST /analyze-prescription/
analyze_prescription ==
    \E image_url \in ImageUrls, comp \in BackendOutcomes(Text(reply)) :
      \E left \in FramesAt(comp) :
        LET r == analyze_image_with_nebius(image_url, PrescriptionPrompt, comp,
                                           left)
        IN  /\ req' = Request("/analyze-prescription/", "prescription", "analyze",
                              [image_url |-> image_url, left |-> left],
                              r.calls, r.resp)
            /\ UNCHANGED <<store, reading, reply>>

\* POST /analyze-lab-requisition/
analyze_lab_requisition ==
    \E image_url \in ImageUrls, dl \in Downloads :
        \E gen \in IF Fetched(dl)
                   THEN BackendOutcomes(Text(reply)) ELSE {[kind |-> "uncalled"]} :
          \E left \in FramesAt(gen) :
            LET r == analyze_image_with_gemini(image_url, dl, gen, left)
            IN  /\ req' = Request("/analyze-lab-requisition/", "lab-requisition",
                                  "analyze", [image_url |-> image_url, left |-> left],
                                  r.calls, r.resp)
                /\ UNCHANGED <<store, reading, reply>>

Next ==
    \/ upload_prescription_reads
    \/ upload_lab_requisition_reads
    \/ upload_prescription
    \/ fetch_prescriptions
    \/ analyze_prescription
    \/ upload_lab_requisition
    \/ fetch_lab_requisitions
    \/ analyze_lab_requisition

Spec == Init /\ [][Next]_vars

\* The two analyze routes alone, over every text of Replies.
InitAnalyze ==
    /\ store = <<>>
    /\ reading = {}
    /\ req = Idle
    /\ reply \in Replies

NextAnalyze ==
    \/ analyze_prescription
    \/ analyze_lab_requisition

SpecAnalyze == InitAnalyze /\ [][NextAnalyze]_vars
\* ================================================================== claims
\* The request was an analyze request of the route.
Analyzed(route) == req.op = "analyze" /\ req.route = route

\* The calls of the last request to a vision backend.
IsBackendCall(c) ==
    c.api \in {"nebius.chat.completions.create", "gemini.models.generate_content"}

BackendCalls == SelectSeq(req.calls, IsBackendCall)

\* The backend was called and answered with the text of reply.
BackendAnswered ==
    /\ Len(BackendCalls) = 1
    /\ BackendCalls[1].back.kind = "text"
    /\ BackendCalls[1].back.text = Text(reply)

\* The text json.loads is given: the backend text, stripped and unfenced.
Unfenced == StripFence(Strip(Text(reply)))

\* The handler returned a result (no exception).
Returned == req.resp.code = 200

\* The text is valid JSON: the decoder takes it when no limit of the
\* interpreter stands in the way.
IsJson(t) == Decode(t, [nest |-> Len(t) + 3, digits |-> Len(t)]).ok

\* json.loads as the last request called it.
Loads(t) == JsonLoads(t, req.input.left)

\* ---- C1: on the lab-requisition path a backend text that is not valid JSON
\* after fence stripping yields, once the download and the backend call
\* succeeded, a 200 result with status "warning" and a message; the parse
\* failure never fails the request.
C1_LabParseFailureWarns ==
    (Analyzed("/analyze-lab-requisition/") /\ BackendAnswered
        /\ ~IsJson(Unfenced))
    => /\ Returned
       /\ req.resp.body.status = "warning"
       /\ "message" \in DOMAIN req.resp.body

\* ---- C2: on the prescription path a backend text that is not valid JSON
\* after fence stripping ends in a 500; no result with status "success" or
\* "warning" is returned.
C2_PrescriptionParseFailureFails ==
    (Analyzed("/analyze-prescription/") /\ BackendAnswered
        /\ ~IsJson(Unfenced))
    => /\ req.resp.code = 500
       /\ ~Returned

C2_Witness ==
    /\ Analyzed("/analyze-prescription/") /\ BackendAnswered
    /\ reply.body = <<"{", "a", ":", "1", "}">>
    /\ req.resp.code = 500

\* Every character of t is JSON whitespace.
OnlyJsonWS(t) == \A k \in 1..Len(t) : t[k] \in {" ", "\t", "\r", "\n"}

\* The backend text is the opening marker, the body and the closing marker,
\* with JSON whitespace (space, tab, CR, LF) at most between the markers and
\* the body, and any whitespace around the whole.
FencedBody ==
    /\ req.op = "analyze" /\ BackendAnswered
    /\ reply.open = FenceOpen /\ reply.close = FenceClose
    /\ OnlyJsonWS(reply.in1) /\ OnlyJsonWS(reply.in2)

\* ---- C3: for every valid JSON text J the fenced text yields on both
\* analyze paths {status: success, description: parse(J)}.
C3_FencedValidJsonParses ==
    (FencedBody /\ IsJson(reply.body))
    => /\ Returned
       /\ req.resp.body.status = "success"

\* ---- C4: every result an analyze operation returns has status "success" or
\* "warning"; "success" exactly when the description is the value of a
\* successful parse, "warning" exactly when it is the text that did not parse.
C4_StatusTagsDescription ==
    (req.op = "analyze" /\ Returned)
    => /\ BackendAnswered
       /\ req.resp.body.status \in {"success", "warning"}
       /\ req.resp.body.status = "success" <=> Loads(Unfenced).ok
       /\ req.resp.body.status = "success"
            => req.resp.body.description = Loads(Unfenced).val
       /\ req.resp.body.status = "warning"
            => req.resp.body.description = PyStr(Unfenced)

C4_Witness ==
    /\ Analyzed("/analyze-lab-requisition/") /\ Returned
    /\ req.resp.body.status = "warning"
    /\ req.resp.body.description = PyStr(<<"n", "o">>)

\* ---- C5: on the lab-requisition path the description of the warning result
\* is the raw text the backend returned (the sanitizer's input), with a
\* could-not-parse message.
C5_WarningCarriesRawText ==
    (Analyzed("/analyze-lab-requisition/") /\ Returned
        /\ req.resp.body.status = "warning")
    => /\ req.resp.body.description = PyStr(Text(reply))
       /\ req.resp.body.message = "Could not parse response as JSON"

\* The text holds three grave accents in a row.
HasMarker(t) ==
    \E k \in 1..Len(t) - 2 : SubSeq(t, k, k + 2) = <<BT, BT, BT>>

CleanJson(t) == IsJson(t) /\ ~HasMarker(t)

\* ---- C6: for a text that is already clean JSON (valid JSON, no fence
\* marker in it) stripping the fences twice and parsing gives what stripping
\* once and parsing gives, which is what parsing the text gives (the same
\* value, or the same exception where json.loads cannot convert it); where it
\* is a value, it is what the analyze operation returned.
C6_StripFenceIdempotent ==
    (req.op = "analyze" /\ BackendAnswered /\ CleanJson(Text(reply)))
    => /\ Loads(StripFence(StripFence(Text(reply))))
            = Loads(StripFence(Text(reply)))
       /\ Loads(StripFence(Text(reply))) = Loads(Text(reply))
       /\ Loads(Text(reply)).ok
            => /\ Returned
               /\ req.resp.body.description = Loads(Text(reply)).val

C6_Witness ==
    /\ req.op = "analyze" /\ BackendAnswered /\ CleanJson(Text(reply))
    /\ Text(reply) = <<"\n", "[", "1", ",", " ", "2", "]", "\n">>
    /\ Returned /\ req.resp.body.status = "success"

\* The calls of the last request that download the image.
DownloadCalls == SelectSeq(req.calls, LAMBDA c : c.api = "requests.get")

\* ---- C10: an analyze request calls its vision backend at most once; on the
\* lab-requisition path only after a download that returned 200, and a failed
\* download ends in a 500 with no backend call; a failed backend call ends in
\* a 500 with no call after it.
C10_NoRetryFailFast ==
    req.op = "analyze"
    => /\ Len(BackendCalls) <= 1
       /\ Len(DownloadCalls) <= 1
       /\ Analyzed("/analyze-lab-requisition/")
            => /\ Len(DownloadCalls) = 1
               /\ req.calls[1].api = "requests.get"
               /\ Len(BackendCalls) = 1
                    => /\ req.calls[1].back.kind = "response"
                       /\ req.calls[1].back.status_code = 200
               /\ (req.calls[1].back.kind = "raise"
                      \/ req.calls[1].back.status_code # 200)
                    => req.resp.code = 500 /\ Len(BackendCalls) = 0
       /\ (Len(BackendCalls) = 1 /\ BackendCalls[1].back.kind = "raise")
            => /\ req.resp.code = 500
               /\ IsBackendCall(req.calls[Len(req.calls)])

C10_Witness ==
    /\ Analyzed("/analyze-lab-requisition/")
    /\ Len(req.calls) = 1
    /\ req.calls[1].back.kind = "response" /\ req.calls[1].back.status_code = 404
    /\ req.resp.code = 500
\* The last four characters of the name are ".pdf" in either case of letter.
IsPdfName(name) ==
    /\ Len(name) >= 4
    /\ name[Len(name) - 3] = "."
    /\ name[Len(name) - 2] \in {"p", "P"}
    /\ name[Len(name) - 1] \in {"d", "D"}
    /\ name[Len(name)] \in {"f", "F"}

\* ---- C7: upload_file_to_cloudinary sends an upload whose filename has a
\* .pdf extension with format jpg and page 1, any other upload with neither
\* option (resource_type auto), and in both cases the bytes read from the file.
C7_PdfFirstPageElseAsIs ==
    req.op = "upload"
    => /\ Len(req.calls) = 1
       /\ req.calls[1].api = "cloudinary.uploader.upload"
       /\ req.calls[1].args.data = req.input.bytes
       /\ req.calls[1].args.options.resource_type = "auto"
       /\ IF IsPdfName(req.input.filename)
          THEN /\ DOMAIN req.calls[1].args.options
                    = {"folder", "resource_type", "format", "page"}
               /\ req.calls[1].args.options.format = "jpg"
               /\ req.calls[1].args.options.page = "1"
          ELSE DOMAIN req.calls[1].args.options = {"folder", "resource_type"}

C7_Witness ==
    /\ req.op = "upload"
    /\ req.input.filename = <<"B", ".", "P", "d", "F">>
    /\ req.input.bytes = "bytes-2"
    /\ req.calls[1].args.options.format = "jpg"
    /\ req.calls[1].args.data = "bytes-2"
    /\ Returned

\* The category a route belongs to, its folder and its backend.
CategoryOf(route) ==
    IF route \in {"/upload-prescription/", "/fetch-prescriptions/",
                  "/analyze-prescription/"}
    THEN "prescription" ELSE "lab-requisition"

FolderOf(category) ==
    IF category = "prescription"
    THEN <<"p", "r", "e", "s", "c", "r", "i", "p", "t", "i", "o", "n", "s">>
    ELSE <<"l", "a", "b", "-", "r", "e", "q", "u", "i", "s", "i", "t", "i", "o", "n", "s">>

BackendOf(category) ==
    IF category = "prescription"
    THEN "nebius.chat.completions.create" ELSE "gemini.models.generate_content"

DispatchedCall(c, category) ==
    /\ c.api = "cloudinary.uploader.upload"
         => c.args.options.folder = FolderOf(category)
    /\ c.api = "cloudinary.api.resources"
         => c.args.prefix = FolderOf(category) \o <<"/">>
    /\ IsBackendCall(c) => c.api = BackendOf(category)
    /\ c.api = "requests.get" => category = "lab-requisition"

\* The store holds the URL for an upload of the category.
UploadedBy(url, category) ==
    \E k \in 1..Len(store) : store[k].secure_url = url /\ store[k].by = category

\* ---- C8: the category of a route fixes, in every sequence of requests, the
\* folder it uploads to, the prefix it lists by and the backend it analyzes
\* with; a list of one category never returns a URL that an upload of the
\* other category stored.
C8_CategoryDispatch ==
    req.op # "none"
    => /\ \A k \in 1..Len(req.calls) :
             DispatchedCall(req.calls[k], CategoryOf(req.route))
       /\ (req.op = "upload" /\ Returned)
            => UploadedBy(req.resp.body.url, CategoryOf(req.route))
       /\ (req.op = "list" /\ Returned)
            => \A k \in 1..Len(req.resp.body.images) :
                  UploadedBy(req.resp.body.images[k], CategoryOf(req.route))

\* A lab-requisition list that returned its one URL while the store also
\* holds a prescription.
C8_Witness ==
    /\ req.route = "/fetch-lab-requisitions/" /\ Returned
    /\ Len(store) = 2
    /\ store[1].by = "prescription" /\ store[2].by = "lab-requisition"
    /\ req.resp.body.images = <<store[2].secure_url>>

\* The resources of a store answer.
Reported(back) == IF "resources" \in DOMAIN back THEN back.resources ELSE <<>>

\* ---- C9: when the store's answer to the list query holds no resources (an
\* empty list, or no list) the list operation returns {images: []} and does
\* not fail; in general it returns the URLs of the resources the store
\* reported, in its order.
C9_ListReturnsReportedUrls ==
    (req.op = "list" /\ "raised" \notin DOMAIN req.calls[1].back)
    => /\ Returned
       /\ Len(req.resp.body.images) = Len(Reported(req.calls[1].back))
       /\ \A k \in 1..Len(req.resp.body.images) :
             req.resp.body.images[k] = Reported(req.calls[1].back)[k].secure_url
       /\ Reported(req.calls[1].back) = <<>> => req.resp.body.images = <<>>

\* A list that got an answer without a resource list, with the folder empty.
C9_Witness ==
    /\ req.route = "/fetch-prescriptions/"
    /\ store # <<>> /\ \A k \in 1..Len(store) : store[k].by = "lab-requisition"
    /\ "resources" \notin DOMAIN req.calls[1].back
    /\ "raised" \notin DOMAIN req.calls[1].back
    /\ Returned /\ req.resp.body.images = <<>>
====
